---- MODULE Spec2Model ----
(***************************************************************************)
(* analyze_badges.py: the three badge-log analyses                         *)
(*   detect_impossible_travel, detect_curious_users, room_typing           *)
(* and the main() that runs them in sequence and writes their results.     *)
(*                                                                         *)
(* A DataFrame is a sequence of rows; a row is a record whose "index"      *)
(* field is the pandas index label (0-based input position).  A key that   *)
(* an input line does not carry is NoField; a column exists when at least  *)
(* one row carries the key.  median_dwell_mins and dwell_mins are held as  *)
(* whole numbers of 1/MinUnit minutes, so that "/ 60.0" and the mean of    *)
(* the two middle values of an even-sized group stay exact.                *)
(***************************************************************************)
EXTENDS Integers, Sequences, FiniteSets

VARIABLES
    df,        \* the event DataFrame returned by read_jsonl
    allowed,   \* the permission map returned by load_allowed_rooms
    imp,       \* results of the calls of detect_impossible_travel so far
    curious,   \* results of the calls of detect_curious_users so far
    rooms,     \* results of the calls of room_typing so far
    visits,    \* room_typing's working frame d after line 109, last call
    grp,       \* one room's group inside room_typing (lines 106-145)
    pc,        \* position of the driver
    files,     \* the output files of main: name -> content
    stdout,    \* what main printed
    quicksort, \* what the build's argsort(kind="quicksort") returned in this
               \* process: array of keys -> indexer
    heap,      \* the DataFrame objects: the one main's df names (caller) and
               \* the one made inside the running analysis (local)
    dref       \* the object the local name d of the running analysis names

vars == <<df, allowed, imp, curious, rooms, visits, grp, pc, files, stdout,
          quicksort, heap, dref>>

-----------------------------------------------------------------------------
(* Bounds of the explored inputs *)

MaxEvents == 3

-----------------------------------------------------------------------------
(* Program constants *)

FOUR_HOURS_SECS == 4 * 60 * 60

\* dwell_mins unit: one minute is MinUnit units ((next - epoch) / 60.0)
MinUnit == 2 * 60

NoField == "<absent>"

\* Python's str ordering on the identifiers used here
StrOrder == <<"A", "B", "U1", "U2">>

Rank(s) == CHOOSE i \in 1..Len(StrOrder) : StrOrder[i] = s

-----------------------------------------------------------------------------
(* Timestamps.  An ISO-8601 string is held by its parts: the wall-clock    *)
(* seconds since 1970-01-01T00:00:00 it spells, its milliseconds, and its  *)
(* UTC offset (naive = TRUE when it spells none).  valid = FALSE is a      *)
(* string isoparse rejects.                                                *)

Stamp(w, m, n, o) == [valid |-> TRUE, wall |-> w, ms |-> m, naive |-> n, off |-> o]

BadStamp == [valid |-> FALSE, wall |-> 0, ms |-> 0, naive |-> TRUE, off |-> 0]

\* int(x) of Python: truncation toward zero of x = n / d
IntTrunc(n, d) == IF n >= 0 THEN n \div d ELSE -((-n) \div d)

iso_to_epoch(ts) ==
    LET utcoff == IF ts.naive THEN 0 ELSE ts.off
    IN  IntTrunc((ts.wall - utcoff) * 1000 + ts.ms, 1000)

\* pd.to_datetime(...).dt.hour: the hour the string spells
hour_of(ts) == (ts.wall \div 3600) % 24

-----------------------------------------------------------------------------
(* Frames *)

HasColumn(frame, c) == \E i \in 1..Len(frame) : frame[i][c] # NoField

Raised == [ok |-> FALSE, rows |-> <<>>]

Returned(rs) == [ok |-> TRUE, rows |-> rs]

\* d = df.copy(); d["epoch"] = d["timestamp"].apply(iso_to_epoch)
with_epoch(frame) ==
    [i \in 1..Len(frame) |->
        [index       |-> i - 1,
         user_id     |-> frame[i].user_id,
         room_id     |-> frame[i].room_id,
         location_id |-> frame[i].location_id,
         timestamp   |-> frame[i].timestamp,
         success     |-> frame[i].success,
         epoch       |-> iso_to_epoch(frame[i].timestamp)]]

Front(s) == SubSeq(s, 1, Len(s) - 1)

Last(s) == s[Len(s)]

\* a sort that puts a row before the rows of equal key
KeyLT(a, b) ==
    \/ Rank(a.user_id) < Rank(b.user_id)
    \/ a.user_id = b.user_id /\ a.epoch < b.epoch

\* the lexicographic key ["user_id", "epoch"]
KeyLE(a, b) ==
    \/ Rank(a.user_id) < Rank(b.user_id)
    \/ a.user_id = b.user_id /\ a.epoch <= b.epoch

RECURSIVE InsertRow(_, _)
InsertRow(s, x) ==
    IF s = <<>> THEN <<x>>
    ELSE IF KeyLE(Last(s), x) THEN Append(s, x)
    ELSE Append(InsertRow(Front(s), x), Last(s))

\* d.sort_values(["user_id", "epoch"]): a stable lexsort
RECURSIVE sort_values(_)
sort_values(d) ==
    IF d = <<>> THEN <<>> ELSE InsertRow(sort_values(Front(d)), Last(d))

\* groupby("user_id")[...].shift(1): position of the previous row of the
\* same group, 0 when there is none (NaN)
shift_prev(d, i) ==
    LET before == {j \in 1..(i - 1) : d[j].user_id = d[i].user_id}
    IN  IF before = {} THEN 0 ELSE CHOOSE j \in before : \A k \in before : k <= j

\* a shift(-1) over the whole frame, user groups ignored
shift_next_ungrouped(d, i) == IF i < Len(d) THEN i + 1 ELSE 0

\* groupby("user_id")[...].shift(-1): position of the next row of the same
\* group, 0 when there is none (NaN)
shift_next(d, i) ==
    LET after == {j \in (i + 1)..Len(d) : d[j].user_id = d[i].user_id}
    IN  IF after = {} THEN 0 ELSE CHOOSE j \in after : \A k \in after : j <= k

\* d.loc[mask]: the rows at the positions of keep, in frame order
RECURSIVE select_rows(_, _, _)
select_rows(d, keep, n) ==
    IF n = 0 THEN <<>>
    ELSE IF n \in keep THEN Append(select_rows(d, keep, n - 1), d[n])
    ELSE select_rows(d, keep, n - 1)

-----------------------------------------------------------------------------
(* DataFrame objects.  An object has its set of columns and its rows; a    *)
(* row carries its index label and a value for every column.  A name is    *)
(* bound to an object; d[col] = values writes into the object d names,     *)
(* whatever other name is bound to it, while copy(), sort_values() and     *)
(* d[mask] make a new object.                                              *)

InputColumns == {"user_id", "room_id", "location_id", "timestamp", "success"}

NoFrame == [columns |-> {}, rows |-> <<>>]

\* a line carries the key c; every line carries a timestamp string
carries(row, c) == IF c = "timestamp" THEN TRUE ELSE row[c] # NoField

\* pd.DataFrame(rows): a column for every key some line carries, and the
\* RangeIndex
DataFrame(rows) ==
    [columns |-> {c \in InputColumns : \E i \in 1..Len(rows) : carries(rows[i], c)},
     rows    |-> [i \in 1..Len(rows) |->
                     [c \in InputColumns \cup {"index"} |->
                         IF c = "index" THEN i - 1 ELSE rows[i][c]]]]

\* d = df with no copy made: d names the caller's object
copy_aliased(h, src) == [heap |-> h, bound |-> src]

\* df.copy(): a new object with the content of the object src names
copy(h, src) == [heap |-> [h EXCEPT !.local = h[src]], bound |-> "local"]

\* obj[col] = values, in place
setitem(obj, col, values) ==
    [columns |-> obj.columns \cup {col},
     rows    |-> [i \in 1..Len(obj.rows) |->
                     [c \in (DOMAIN obj.rows[i]) \cup {col} |->
                         IF c = col THEN values[i] ELSE obj.rows[i][c]]]]

\* the object a name bound to ref names after ref[col] = values
written(h, ref, col, values) == [h EXCEPT ![ref] = setitem(h[ref], col, values)]

\* d = <a new frame>: the name d is bound to a new object
rebound(h, obj) == [h EXCEPT !.local = obj]

\* the analysis returns: its local object is gone
returned_from(h) == [h EXCEPT !.local = NoFrame]

\* d["timestamp"].apply(iso_to_epoch) raises: no such column, or a string
\* isoparse rejects
epoch_raises(obj) ==
    \/ "timestamp" \notin obj.columns
    \/ \E i \in 1..Len(obj.rows) : ~obj.rows[i].timestamp.valid

epoch_column(obj) == [i \in 1..Len(obj.rows) |-> iso_to_epoch(obj.rows[i].timestamp)]

-----------------------------------------------------------------------------
(* detect_impossible_travel *)

\* d["prev_loc"], d["prev_epoch"]: the group-wise shift(1); NaN is NoField
\* for prev_loc and prev_isna for prev_epoch
with_prev(d) ==
    [i \in 1..Len(d) |->
        LET p == shift_prev(d, i)
        IN  [index       |-> d[i].index,
             user_id     |-> d[i].user_id,
             location_id |-> d[i].location_id,
             epoch       |-> d[i].epoch,
             prev_loc    |-> IF p = 0 THEN NoField ELSE d[p].location_id,
             prev_isna   |-> (p = 0),
             prev_epoch  |-> IF p = 0 THEN 0 ELSE d[p].epoch]]

\* the threshold taken as inclusive
travel_mask_inclusive(row) ==
    /\ row.prev_loc # NoField
    /\ row.location_id # row.prev_loc
    /\ ~row.prev_isna
    /\ row.epoch - row.prev_epoch <= FOUR_HOURS_SECS

travel_mask(row) ==
    /\ row.prev_loc # NoField
    /\ row.location_id # row.prev_loc
    /\ ~row.prev_isna
    /\ row.epoch - row.prev_epoch < FOUR_HOURS_SECS

\* the two locations exchanged
travel_finding_swapped(row) ==
    [index           |-> row.index,
     user_id         |-> row.user_id,
     first_location  |-> row.location_id,
     second_location |-> row.prev_loc,
     first_ts        |-> row.prev_epoch,
     second_ts       |-> row.epoch,
     delta_secs      |-> row.epoch - row.prev_epoch]

travel_finding(row) ==
    [index           |-> row.index,
     user_id         |-> row.user_id,
     first_location  |-> row.prev_loc,
     second_location |-> row.location_id,
     first_ts        |-> row.prev_epoch,
     second_ts       |-> row.epoch,
     delta_secs      |-> row.epoch - row.prev_epoch]

detect_impossible_travel(frame) ==
    IF Len(frame) = 0 THEN Raised
    ELSE IF \E i \in 1..Len(frame) : ~frame[i].timestamp.valid THEN Raised
    ELSE IF ~HasColumn(frame, "location_id") THEN Raised
    ELSE LET d    == with_prev(sort_values(with_epoch(frame)))
             keep == {i \in 1..Len(d) : travel_mask(d[i])}
             res  == select_rows(d, keep, Len(d))
         IN  Returned([k \in 1..Len(res) |-> travel_finding(res[k])])

-----------------------------------------------------------------------------
(* Sorting a result by one integer column, descending *)

Reverse(s) == [i \in 1..Len(s) |-> s[Len(s) + 1 - i]]

column(s, col) == [i \in 1..Len(s) |-> s[i][col]]

\* ndarray.argsort(kind="quicksort"): the sort is not stable, so the build
\* may return any indexer that puts the items in ascending order
argsort(items) ==
    {ix \in [1..Len(items) -> 1..Len(items)] :
        /\ \A i \in 1..Len(items), j \in 1..Len(items) : ix[i] = ix[j] => i = j
        /\ \A i \in 1..(Len(items) - 1) : items[ix[i]] <= items[ix[i + 1]]}

\* sort_values(col, ascending=False): nargsort reverses the column and its
\* positions, takes the positions in the order of the build's argsort qs and
\* reverses the outcome
sort_descending(s, col, qs) ==
    LET items   == Reverse(column(s, col))
        idx     == Reverse([i \in 1..Len(s) |-> i])
        indexer == Reverse([k \in 1..Len(s) |-> idx[qs[items][k]]])
    IN  [k \in 1..Len(s) |-> s[indexer[k]]]

\* the group keys of groupby(col), in sorted order
RECURSIVE InsertKey(_, _)
InsertKey(s, k) ==
    IF s = <<>> THEN <<k>>
    ELSE IF Rank(Last(s)) <= Rank(k) THEN Append(s, k)
    ELSE Append(InsertKey(Front(s), k), Last(s))

RECURSIVE sorted_keys(_)
sorted_keys(ks) ==
    IF ks = {} THEN <<>>
    ELSE LET k == CHOOSE x \in ks : TRUE
         IN  InsertKey(sorted_keys(ks \ {k}), k)

group_keys(d, col) == sorted_keys({d[i][col] : i \in 1..Len(d)} \ {NoField})

-----------------------------------------------------------------------------
(* detect_curious_users *)

\* every access that is not marked successful taken as a failure
is_unauth_not_true(row, allowed_map) ==
    LET permitted == IF row.user_id \in DOMAIN allowed_map
                     THEN allowed_map[row.user_id] ELSE {}
    IN  (row.success # "true") /\ (row.room_id \notin permitted)

is_unauth(row, allowed_map) ==
    LET permitted == IF row.user_id \in DOMAIN allowed_map
                     THEN allowed_map[row.user_id] ELSE {}
    IN  (row.success = "false") /\ (row.room_id \notin permitted)

\* row["room_id"] is evaluated only after success is False, and raises
\* KeyError when the frame has no room_id column
is_unauth_raises(frame, row) ==
    (row.success = "false") /\ ~HasColumn(frame, "room_id")

\* lines 91-93 on the curious rows: one row per user, attempts the number
\* of the user's rows
curious_agg(d) ==
    LET keys == group_keys(d, "user_id")
    IN  [g \in 1..Len(keys) |->
            [index    |-> g - 1,
             user_id  |-> keys[g],
             attempts |-> Cardinality({i \in 1..Len(d) : d[i].user_id = keys[g]})]]

\* lines 87-93: the groups of the curious rows, before the sort
curious_groups(frame, allowed_map) ==
    IF Len(frame) = 0 THEN Raised
    ELSE IF \E i \in 1..Len(frame) : is_unauth_raises(frame, frame[i]) THEN Raised
    ELSE LET hit  == {i \in 1..Len(frame) : is_unauth(frame[i], allowed_map)}
         IN  Returned(curious_agg(select_rows(frame, hit, Len(frame))))

detect_curious_users(frame, allowed_map, qs) ==
    LET cur == curious_groups(frame, allowed_map)
    IN  IF cur.ok THEN Returned(sort_descending(cur.rows, "attempts", qs))
        ELSE Raised

-----------------------------------------------------------------------------
(* room_typing *)

\* a clip that forgets the lower threshold
clip_upper_only(x, lower, upper) == IF x > upper THEN upper ELSE x

\* Series.clip(lower, upper) with scalar thresholds
clip(x, lower, upper) ==
    IF x > upper THEN upper ELSE IF x < lower THEN lower ELSE x

\* (next_epoch - epoch) / 60.0, in 1/MinUnit minutes
dwell_mins(epoch, next_epoch) == ((next_epoch - epoch) * MinUnit) \div 60

\* every row kept, the last of a user too
has_next_always(s, i) == TRUE

\* d["next_epoch"].notna()
has_next(s, i) == shift_next(s, i) # 0

\* d after line 109: the rows that have a next event, with the clipped
\* dwell and the hour of day
room_visits(frame) ==
    LET s    == sort_values(with_epoch(frame))
        keep == {i \in 1..Len(s) : has_next(s, i)}
        d    == [i \in 1..Len(s) |->
                    LET n  == shift_next(s, i)
                        ne == IF n = 0 THEN s[i].epoch ELSE s[n].epoch
                    IN  [index      |-> s[i].index,
                         user_id    |-> s[i].user_id,
                         room_id    |-> s[i].room_id,
                         epoch      |-> s[i].epoch,
                         next_epoch |-> ne,
                         dwell_mins |-> clip(dwell_mins(s[i].epoch, ne),
                                             0, 240 * MinUnit),
                         hour       |-> hour_of(s[i].timestamp)]]
    IN  select_rows(d, keep, Len(s))

\* the k-th smallest of the values of a non-empty sequence
kth_smallest(s, k) ==
    CHOOSE x \in {s[i] : i \in 1..Len(s)} :
        /\ Cardinality({i \in 1..Len(s) : s[i] < x}) < k
        /\ k <= Cardinality({i \in 1..Len(s) : s[i] <= x})

\* the median of a group: the middle value, or the mean of the two middle
\* values of an even-sized group
median(s) ==
    LET n == Len(s)
    IN  IF n % 2 = 1 THEN kth_smallest(s, (n + 1) \div 2)
        ELSE (kth_smallest(s, n \div 2) + kth_smallest(s, n \div 2 + 1)) \div 2

\* sum(r.get(h, 0) for h in hs)
RECURSIVE SumOver(_, _)
SumOver(f, hs) ==
    IF hs = {} THEN 0
    ELSE LET h == CHOOSE x \in hs : TRUE IN f[h] + SumOver(f, hs \ {h})

\* the first matching rule kept instead of the last
label_row_first_match(r) ==
    LET med     == r.median_dwell_mins
        morning == SumOver(r.hours, {7, 8, 9})
        lunch   == SumOver(r.hours, {11, 12, 13})
        eve     == SumOver(r.hours, {16, 17, 18, 19})
        night   == SumOver(r.hours, {0, 1, 2, 3, 4, 5, 21, 22, 23})
    IN  IF morning > lunch /\ med < 15 * MinUnit THEN "Lobby/Entry"
        ELSE IF 25 * MinUnit <= med /\ med <= 150 * MinUnit
                /\ lunch > morning /\ lunch > eve THEN "Conference/Meeting"
        ELSE IF med < 10 * MinUnit /\ (morning + lunch + eve) > 50 /\ night = 0
             THEN "Hallway/Break"
        ELSE IF 40 * MinUnit <= med /\ med <= 90 * MinUnit
                /\ lunch > (morning + eve) /\ lunch > 20 THEN "Cafeteria"
        ELSE IF night > (morning + lunch + eve) /\ med >= 60 * MinUnit
             THEN "Security/Overnight/Server"
        ELSE "Other/Office"

label_row(r) ==
    LET med     == r.median_dwell_mins
        morning == SumOver(r.hours, {7, 8, 9})
        lunch   == SumOver(r.hours, {11, 12, 13})
        eve     == SumOver(r.hours, {16, 17, 18, 19})
        night   == SumOver(r.hours, {0, 1, 2, 3, 4, 5, 21, 22, 23})
        label0  == "Other/Office"
        label1  == IF morning > lunch /\ med < 15 * MinUnit
                   THEN "Lobby/Entry" ELSE label0
        label2  == IF 25 * MinUnit <= med /\ med <= 150 * MinUnit
                      /\ lunch > morning /\ lunch > eve
                   THEN "Conference/Meeting" ELSE label1
        label3  == IF med < 10 * MinUnit /\ (morning + lunch + eve) > 50 /\ night = 0
                   THEN "Hallway/Break" ELSE label2
        label4  == IF 40 * MinUnit <= med /\ med <= 90 * MinUnit
                      /\ lunch > (morning + eve) /\ lunch > 20
                   THEN "Cafeteria" ELSE label3
        label5  == IF night > (morning + lunch + eve) /\ med >= 60 * MinUnit
                   THEN "Security/Overnight/Server" ELSE label4
    IN  label5

\* agg after the merge with the hour pivot: one row per room_id
room_agg(d) ==
    LET keys == group_keys(d, "room_id")
    IN  [g \in 1..Len(keys) |->
            LET rs == select_rows(d, {i \in 1..Len(d) : d[i].room_id = keys[g]}, Len(d))
            IN  [index             |-> g - 1,
                 room_id           |-> keys[g],
                 visits            |-> Len(rs),
                 median_dwell_mins |-> median([i \in 1..Len(rs) |-> rs[i].dwell_mins]),
                 hours             |-> [h \in 0..23 |->
                                          Cardinality({i \in 1..Len(rs) : rs[i].hour = h})]]]

\* lines 145-146: agg["label"] and the four columns of the result
labelled(agg) ==
    [g \in 1..Len(agg) |->
        [index             |-> agg[g].index,
         room_id           |-> agg[g].room_id,
         visits            |-> agg[g].visits,
         median_dwell_mins |-> agg[g].median_dwell_mins,
         label             |-> label_row(agg[g])]]

\* With no row left in d the groupby, the pivot, the merge and the apply
\* all run over empty frames, and the result has no row.
room_labels(frame) ==
    IF Len(frame) = 0 THEN Raised
    ELSE IF \E i \in 1..Len(frame) : ~frame[i].timestamp.valid THEN Raised
    ELSE IF ~HasColumn(frame, "room_id") THEN Raised
    ELSE Returned(labelled(room_agg(room_visits(frame))))

\* lines 146-148
room_typing(frame, qs) ==
    LET out == room_labels(frame)
    IN  IF out.ok THEN Returned(sort_descending(out.rows, "visits", qs))
        ELSE Raised

-----------------------------------------------------------------------------
(* Inputs *)

T0 == 7 * 3600

Naive(w) == Stamp(w, 0, TRUE, 0)

TravelStamps ==
    {Naive(T0), Naive(T0 + FOUR_HOURS_SECS - 1), Naive(T0 + FOUR_HOURS_SECS)}

RoomStamps ==
    {Naive(T0 + 4 * 3600), Naive(T0 + 5 * 3600), Naive(T0 + 5 * 3600 + 500 * 60)}

\* timestamps spelled with a +02:00 offset, one with a fraction of a second
ZonedStamps == {Stamp(T0, 0, FALSE, 7200), Stamp(T0 + 3600, 500, FALSE, 7200)}

Rows(U, R, L, T, S) ==
    [user_id : U, room_id : R, location_id : L, timestamp : T, success : S]

Frames(E, n) == UNION {[1..k -> E] : k \in 1..n}

TravelFrames ==
    Frames(Rows({"U1", "U2"}, {"A"}, {"A", "B"}, TravelStamps, {NoField}), MaxEvents)

RoomFrames ==
    Frames(Rows({"U1", "U2"}, {"A", "B"}, {"A"}, RoomStamps, {NoField}), MaxEvents)

AuditFrames ==
    Frames(Rows({"U1", "U2"}, {"A", "B"}, {"A"}, {Naive(T0)},
                {"true", "false", NoField}), MaxEvents)

\* logs whose lines carry no location_id
NoLocFrames ==
    Frames(Rows({"U1"}, {"A", "B"}, {NoField}, {Naive(T0), Naive(T0 + 3600)},
                {NoField}), MaxEvents)

\* logs whose lines carry no room_id
NoRoomFrames ==
    Frames(Rows({"U1"}, {NoField}, {"A", "B"}, {Naive(T0), Naive(T0 + 3600)},
                {NoField, "false"}), MaxEvents)

BadStampFrames ==
    Frames(Rows({"U1"}, {"A"}, {"A"}, {Naive(T0), BadStamp}, {NoField, "false"}),
           MaxEvents)

ZonedFrames ==
    Frames(Rows({"U1"}, {"A", "B"}, {"A", "B"}, ZonedStamps, {NoField}), MaxEvents)

PlainFrames ==
    {<<>>} \cup TravelFrames \cup RoomFrames \cup NoLocFrames \cup NoRoomFrames
           \cup BadStampFrames \cup ZonedFrames

EmptyMap == [u \in {} |-> {}]

\* U1 may enter room A; U2 has no entry in userprofile.json
AllowedMaps == {[u \in {"U1"} |-> {"A"}]}

FileNames == {"cloned_findings.json", "curious_users.json", "room_types.json"}

NotWritten == [written |-> FALSE, records |-> <<>>]

\* no array sorted yet
NoCalls == [items \in {} |-> <<>>]

NoGroup == [raw |-> 0, hours |-> <<>>, dwell_mins |-> 0, median_dwell_mins |-> 0,
            label |-> ""]

\* the state once read_jsonl and load_allowed_rooms have returned
Loaded ==
    /\ \/ df \in PlainFrames /\ allowed = EmptyMap
       \/ df \in AuditFrames /\ allowed \in AllowedMaps
    /\ imp = <<>>
    /\ curious = <<>>
    /\ rooms = <<>>
    /\ visits = <<>>
    /\ grp = NoGroup
    /\ files = [f \in FileNames |-> NotWritten]
    /\ stdout = <<>>
    /\ quicksort = NoCalls
    /\ heap = [caller |-> DataFrame(df), local |-> NoFrame]
    /\ dref = "unbound"

-----------------------------------------------------------------------------
(* The three analyses called on the loaded input, one after the other, a   *)
(* first and a second time; an analysis that raises does not end the run   *)

\* d = df.copy(): the columns an analysis adds go to its copy d, and the
\* caller's frame stays as it was
caller_frame(frame, d) == frame

\* the build's argsort once the sort of res by col has run: a key array
\* sorted before gets the indexer it got then, a new one any indexer the
\* build can return; a call that raised has sorted nothing
Builds(res, col) ==
    LET items == Reverse(column(res.rows, col))
    IN  IF ~res.ok \/ items \in DOMAIN quicksort THEN {quicksort}
        ELSE {[a \in DOMAIN quicksort \cup {items} |->
                  IF a = items THEN ix ELSE quicksort[a]] : ix \in argsort(items)}

parses(frame) ==
    Len(frame) > 0 /\ \A i \in 1..Len(frame) : frame[i].timestamp.valid

Init == Loaded /\ pc = "calls"

CallTravel ==
    /\ pc = "calls"
    /\ Len(imp) = Len(rooms) /\ Len(imp) < 2
    /\ imp' = Append(imp, detect_impossible_travel(df))
    /\ df' = caller_frame(df, IF parses(df) THEN with_epoch(df) ELSE df)
    /\ UNCHANGED <<heap, dref, allowed, curious, rooms, visits, grp, pc, files,
                 stdout, quicksort>>

CallCurious ==
    /\ pc = "calls"
    /\ Len(curious) < Len(imp)
    /\ \E qs \in Builds(curious_groups(df, allowed), "attempts") :
          /\ quicksort' = qs
          /\ curious' = Append(curious, detect_curious_users(df, allowed, qs))
    /\ df' = caller_frame(df, df)
    /\ UNCHANGED <<heap, dref, allowed, imp, rooms, visits, grp, pc, files, stdout>>

CallRooms ==
    /\ pc = "calls"
    /\ Len(rooms) < Len(curious)
    /\ \E qs \in Builds(room_labels(df), "visits") :
          /\ quicksort' = qs
          /\ rooms' = Append(rooms, room_typing(df, qs))
    /\ visits' = IF room_labels(df).ok THEN room_visits(df) ELSE <<>>
    /\ df' = caller_frame(df, IF parses(df) THEN with_epoch(df) ELSE df)
    /\ UNCHANGED <<heap, dref, allowed, imp, curious, grp, pc, files, stdout>>

Next == CallTravel \/ CallCurious \/ CallRooms

Spec == Init /\ [][Next]_vars

-----------------------------------------------------------------------------
(* main: the analyses in sequence, each result written before the next     *)
(* analysis starts; an exception ends the process                          *)

\* DataFrame.to_json(orient="records"): the rows without the index
to_json(rs) ==
    [written |-> TRUE,
     records |-> [i \in 1..Len(rs) |->
                     [c \in (DOMAIN rs[i]) \ {"index"} |-> rs[i][c]]]]

MainInit == Loaded /\ pc = "travel"

MainTravel ==
    /\ pc = "travel"
    /\ LET res == detect_impossible_travel(df)
       IN  IF res.ok
           THEN /\ imp' = <<res>>
                /\ files' = [files EXCEPT !["cloned_findings.json"] = to_json(res.rows)]
                /\ pc' = "curious"
           ELSE /\ pc' = "failed"
                /\ UNCHANGED <<imp, files>>
    /\ df' = caller_frame(df, IF parses(df) THEN with_epoch(df) ELSE df)
    /\ UNCHANGED <<heap, dref, allowed, curious, rooms, visits, grp, stdout, quicksort>>

MainCurious ==
    /\ pc = "curious"
    /\ \E qs \in Builds(curious_groups(df, allowed), "attempts") :
       LET res == detect_curious_users(df, allowed, qs)
       IN  /\ quicksort' = qs
           /\ IF res.ok
              THEN /\ curious' = <<res>>
                   /\ files' = [files EXCEPT !["curious_users.json"] = to_json(res.rows)]
                   /\ pc' = "rooms"
              ELSE /\ pc' = "failed"
                   /\ UNCHANGED <<curious, files>>
    /\ df' = caller_frame(df, df)
    /\ UNCHANGED <<heap, dref, allowed, imp, rooms, visits, grp, stdout>>

MainRooms ==
    /\ pc = "rooms"
    /\ \E qs \in Builds(room_labels(df), "visits") :
       LET res == room_typing(df, qs)
       IN  /\ quicksort' = qs
           /\ IF res.ok
              THEN /\ rooms' = <<res>>
                   /\ visits' = room_visits(df)
                   /\ files' = [files EXCEPT !["room_types.json"] = to_json(res.rows)]
                   /\ pc' = "print"
              ELSE /\ pc' = "failed"
                   /\ UNCHANGED <<rooms, visits, files>>
    /\ df' = caller_frame(df, IF parses(df) THEN with_epoch(df) ELSE df)
    /\ UNCHANGED <<heap, dref, allowed, imp, curious, grp, stdout>>

MainPrint ==
    /\ pc = "print"
    /\ stdout' = <<"== Done ==", Len(imp[1].rows), Len(curious[1].rows),
                   Len(rooms[1].rows)>>
    /\ pc' = "done"
    /\ UNCHANGED <<heap, dref, df, allowed, imp, curious, rooms, visits, grp, files,
                   quicksort>>

MainNext == MainTravel \/ MainCurious \/ MainRooms \/ MainPrint

SpecMain == MainInit /\ [][MainNext]_vars

-----------------------------------------------------------------------------
(* The three analyses run statement by statement on the DataFrame objects, *)
(* in the order of main, a first and a second time in one process.  pc is  *)
(* the line about to run; an analysis that raises is left at that line.    *)

\* logs whose lines carry the place both as room_id and as location_id
BadgeRows ==
    {[user_id |-> u, room_id |-> r, location_id |-> r, timestamp |-> Naive(t),
      success |-> "false"] : u \in {"U1", "U2"}, r \in {"A", "B"},
                             t \in {T0, T0 + 3600}}

RunFrames ==
    Frames(BadgeRows, MaxEvents) \cup NoLocFrames \cup NoRoomFrames
                                 \cup BadStampFrames

RunsInit ==
    /\ df \in RunFrames
    /\ allowed \in AllowedMaps
    /\ imp = <<>>
    /\ curious = <<>>
    /\ rooms = <<>>
    /\ visits = <<>>
    /\ grp = NoGroup
    /\ files = [f \in FileNames |-> NotWritten]
    /\ stdout = <<>>
    /\ quicksort = NoCalls
    /\ heap = [caller |-> DataFrame(df), local |-> NoFrame]
    /\ dref = "unbound"
    /\ pc = "l56"

\* d = df.copy()
Travel56 ==
    /\ pc = "l56"
    /\ LET c == copy(heap, "caller") IN heap' = c.heap /\ dref' = c.bound
    /\ pc' = "l57"
    /\ UNCHANGED <<df, allowed, imp, curious, rooms, visits, grp, files, stdout,
                   quicksort>>

\* d["epoch"] = d["timestamp"].apply(iso_to_epoch)
Travel57 ==
    /\ pc = "l57"
    /\ IF epoch_raises(heap[dref])
       THEN /\ imp' = Append(imp, Raised)
            /\ heap' = returned_from(heap)
            /\ dref' = "unbound"
            /\ pc' = "l87"
       ELSE /\ heap' = written(heap, dref, "epoch", epoch_column(heap[dref]))
            /\ pc' = "l58"
            /\ UNCHANGED <<imp, dref>>
    /\ UNCHANGED <<df, allowed, curious, rooms, visits, grp, files, stdout,
                   quicksort>>

\* d = d.sort_values(["user_id", "epoch"])
Travel58 ==
    /\ pc = "l58"
    /\ heap' = rebound(heap, [columns |-> heap[dref].columns,
                              rows    |-> sort_values(heap[dref].rows)])
    /\ dref' = "local"
    /\ pc' = "l59"
    /\ UNCHANGED <<df, allowed, imp, curious, rooms, visits, grp, files, stdout,
                   quicksort>>

\* lines 59-60: d["prev_loc"] and d["prev_epoch"]
Travel59 ==
    /\ pc = "l59"
    /\ IF "location_id" \notin heap[dref].columns
       THEN /\ imp' = Append(imp, Raised)
            /\ heap' = returned_from(heap)
            /\ dref' = "unbound"
            /\ pc' = "l87"
       ELSE /\ LET rs == heap[dref].rows
                   p  == [i \in 1..Len(rs) |-> shift_prev(rs, i)]
                   h1 == written(heap, dref, "prev_loc",
                             [i \in 1..Len(rs) |->
                                 IF p[i] = 0 THEN NoField ELSE rs[p[i]].location_id])
                   h2 == written(h1, dref, "prev_isna",
                             [i \in 1..Len(rs) |-> p[i] = 0])
               IN  heap' = written(h2, dref, "prev_epoch",
                               [i \in 1..Len(rs) |->
                                   IF p[i] = 0 THEN 0 ELSE rs[p[i]].epoch])
            /\ pc' = "l62"
            /\ UNCHANGED <<imp, dref>>
    /\ UNCHANGED <<df, allowed, curious, rooms, visits, grp, files, stdout,
                   quicksort>>

\* lines 62-78: the mask, res and the return
Travel62 ==
    /\ pc = "l62"
    /\ LET rs   == heap[dref].rows
           keep == {i \in 1..Len(rs) : travel_mask(rs[i])}
           res  == select_rows(rs, keep, Len(rs))
       IN  imp' = Append(imp, Returned([k \in 1..Len(res) |-> travel_finding(res[k])]))
    /\ heap' = returned_from(heap)
    /\ dref' = "unbound"
    /\ pc' = "l87"
    /\ UNCHANGED <<df, allowed, curious, rooms, visits, grp, files, stdout,
                   quicksort>>

\* d = df.copy()
Curious87 ==
    /\ pc = "l87"
    /\ LET c == copy(heap, "caller") IN heap' = c.heap /\ dref' = c.bound
    /\ pc' = "l88"
    /\ UNCHANGED <<df, allowed, imp, curious, rooms, visits, grp, files, stdout,
                   quicksort>>

\* d["curious"] = d.apply(is_unauth, axis=1); allowed_map is read with get
Curious88 ==
    /\ pc = "l88"
    /\ LET rs == heap[dref].rows
       IN  IF \/ Len(rs) = 0
              \/ \E i \in 1..Len(rs) :
                    rs[i].success = "false" /\ "room_id" \notin heap[dref].columns
           THEN /\ curious' = Append(curious, Raised)
                /\ heap' = returned_from(heap)
                /\ dref' = "unbound"
                /\ pc' = "l102"
           ELSE /\ heap' = written(heap, dref, "curious",
                               [i \in 1..Len(rs) |-> is_unauth(rs[i], allowed)])
                /\ pc' = "l89"
                /\ UNCHANGED <<curious, dref>>
    /\ UNCHANGED <<df, allowed, imp, rooms, visits, grp, files, stdout, quicksort>>

\* lines 89-97: the curious rows grouped, sorted and returned
Curious89 ==
    /\ pc = "l89"
    /\ LET rs  == heap[dref].rows
           cur == curious_agg(select_rows(rs, {i \in 1..Len(rs) : rs[i].curious},
                                          Len(rs)))
       IN  \E qs \in Builds(Returned(cur), "attempts") :
              /\ quicksort' = qs
              /\ curious' = Append(curious,
                                Returned(sort_descending(cur, "attempts", qs)))
    /\ heap' = returned_from(heap)
    /\ dref' = "unbound"
    /\ pc' = "l102"
    /\ UNCHANGED <<df, allowed, imp, rooms, visits, grp, files, stdout>>

\* d = df.copy()
Rooms102 ==
    /\ pc = "l102"
    /\ LET c == copy(heap, "caller") IN heap' = c.heap /\ dref' = c.bound
    /\ pc' = "l103"
    /\ UNCHANGED <<df, allowed, imp, curious, rooms, visits, grp, files, stdout,
                   quicksort>>

\* the position after room_typing has returned or raised
after_rooms(n) == IF n < 2 THEN "l56" ELSE "end"

\* d["epoch"] = d["timestamp"].apply(iso_to_epoch)
Rooms103 ==
    /\ pc = "l103"
    /\ IF epoch_raises(heap[dref])
       THEN /\ rooms' = Append(rooms, Raised)
            /\ heap' = returned_from(heap)
            /\ dref' = "unbound"
            /\ pc' = after_rooms(Len(rooms) + 1)
       ELSE /\ heap' = written(heap, dref, "epoch", epoch_column(heap[dref]))
            /\ pc' = "l104"
            /\ UNCHANGED <<rooms, dref>>
    /\ UNCHANGED <<df, allowed, imp, curious, visits, grp, files, stdout,
                   quicksort>>

\* d = d.sort_values(["user_id", "epoch"])
Rooms104 ==
    /\ pc = "l104"
    /\ heap' = rebound(heap, [columns |-> heap[dref].columns,
                              rows    |-> sort_values(heap[dref].rows)])
    /\ dref' = "local"
    /\ pc' = "l105"
    /\ UNCHANGED <<df, allowed, imp, curious, rooms, visits, grp, files, stdout,
                   quicksort>>

\* lines 105-106: d["next_epoch"] and d["dwell_mins"]; a row without a next
\* event has NaN in both (next_isna)
Rooms105 ==
    /\ pc = "l105"
    /\ LET rs == heap[dref].rows
           ne == [i \in 1..Len(rs) |->
                     IF has_next(rs, i) THEN rs[shift_next(rs, i)].epoch
                     ELSE rs[i].epoch]
           h1 == written(heap, dref, "next_epoch", ne)
           h2 == written(h1, dref, "next_isna",
                     [i \in 1..Len(rs) |-> ~has_next(rs, i)])
       IN  heap' = written(h2, dref, "dwell_mins",
                       [i \in 1..Len(rs) |-> dwell_mins(rs[i].epoch, ne[i])])
    /\ pc' = "l107"
    /\ UNCHANGED <<df, allowed, imp, curious, rooms, visits, grp, files, stdout,
                   quicksort, dref>>

\* d = d[d["next_epoch"].notna()]
Rooms107 ==
    /\ pc = "l107"
    /\ LET rs == heap[dref].rows
       IN  heap' = rebound(heap,
                       [columns |-> heap[dref].columns,
                        rows    |-> select_rows(rs, {i \in 1..Len(rs) : ~rs[i].next_isna},
                                                Len(rs))])
    /\ dref' = "local"
    /\ pc' = "l108"
    /\ UNCHANGED <<df, allowed, imp, curious, rooms, visits, grp, files, stdout,
                   quicksort>>

\* lines 108-109: the clip of d["dwell_mins"] and d["hour"]
Rooms108 ==
    /\ pc = "l108"
    /\ LET rs == heap[dref].rows
           h1 == written(heap, dref, "dwell_mins",
                     [i \in 1..Len(rs) |-> clip(rs[i].dwell_mins, 0, 240 * MinUnit)])
       IN  heap' = written(h1, dref, "hour",
                       [i \in 1..Len(rs) |-> hour_of(rs[i].timestamp)])
    /\ pc' = "l111"
    /\ UNCHANGED <<df, allowed, imp, curious, rooms, visits, grp, files, stdout,
                   quicksort, dref>>

\* lines 111-148: agg, the hour pivot, the labels, the sort and the return
Rooms111 ==
    /\ pc = "l111"
    /\ LET out == IF "room_id" \notin heap[dref].columns THEN Raised
                  ELSE Returned(labelled(room_agg(heap[dref].rows)))
       IN  \E qs \in Builds(out, "visits") :
              /\ quicksort' = qs
              /\ rooms' = Append(rooms,
                              IF out.ok
                              THEN Returned(sort_descending(out.rows, "visits", qs))
                              ELSE Raised)
    /\ heap' = returned_from(heap)
    /\ dref' = "unbound"
    /\ pc' = after_rooms(Len(rooms) + 1)
    /\ UNCHANGED <<df, allowed, imp, curious, visits, grp, files, stdout>>

RunsNext ==
    \/ Travel56 \/ Travel57 \/ Travel58 \/ Travel59 \/ Travel62
    \/ Curious87 \/ Curious88 \/ Curious89
    \/ Rooms102 \/ Rooms103 \/ Rooms104 \/ Rooms105 \/ Rooms107 \/ Rooms108
    \/ Rooms111

SpecRuns == RunsInit /\ [][RunsNext]_vars

\* the statements of an analysis return what the analysis, taken as one
\* function of the loaded input, returns
StepsAgree ==
    /\ \A n \in 1..Len(imp) : imp[n] = detect_impossible_travel(df)
    /\ \A n \in 1..Len(curious) :
          curious[n] = detect_curious_users(df, allowed, quicksort)
    /\ \A n \in 1..Len(rooms) : rooms[n] = room_typing(df, quicksort)

-----------------------------------------------------------------------------
(* One room's group inside room_typing: the visits of a room that all have *)
(* the same raw dwell, spread over the hours of the day                    *)

\* next_epoch - epoch of the visits, in seconds
RawDwells ==
    {-300, 300, 600, 900, 1500, 2400, 2700, 3600, 5400, 9000, 9060, 30000}

Counts == {0, 10, 21, 51}

Histogram(ha, ca, hb, cb) ==
    [h \in 0..23 |-> (IF h = ha THEN ca ELSE 0) + (IF h = hb THEN cb ELSE 0)]

Histograms ==
    {Histogram(ha, ca, hb, cb) : ha \in 0..23, ca \in Counts \ {0},
                                 hb \in 0..23, cb \in Counts}

Total(hours) == SumOver(hours, 0..23)

GroupInit ==
    /\ df = <<>>
    /\ allowed = EmptyMap
    /\ imp = <<>>
    /\ curious = <<>>
    /\ rooms = <<>>
    /\ visits = <<>>
    /\ files = [f \in FileNames |-> NotWritten]
    /\ stdout = <<>>
    /\ quicksort = NoCalls
    /\ heap = [caller |-> DataFrame(df), local |-> NoFrame]
    /\ dref = "unbound"
    /\ pc = "dwell"
    /\ \E x \in RawDwells, hs \in Histograms :
          grp = [raw |-> x, hours |-> hs, dwell_mins |-> 0,
                 median_dwell_mins |-> 0, label |-> ""]

\* lines 106 and 108
GroupDwell ==
    /\ pc = "dwell"
    /\ grp' = [grp EXCEPT !.dwell_mins = clip(dwell_mins(0, grp.raw), 0, 240 * MinUnit)]
    /\ pc' = "agg"
    /\ UNCHANGED <<heap, dref, df, allowed, imp, curious, rooms, visits, files,
                 stdout, quicksort>>

\* lines 111-115
GroupAgg ==
    /\ pc = "agg"
    /\ grp' = [grp EXCEPT !.median_dwell_mins =
                   median([i \in 1..Total(grp.hours) |-> grp.dwell_mins])]
    /\ pc' = "label"
    /\ UNCHANGED <<heap, dref, df, allowed, imp, curious, rooms, visits, files,
                 stdout, quicksort>>

\* line 145
GroupLabel ==
    /\ pc = "label"
    /\ grp' = [grp EXCEPT !.label =
                   label_row([median_dwell_mins |-> grp.median_dwell_mins,
                              hours |-> grp.hours])]
    /\ pc' = "labelled"
    /\ UNCHANGED <<heap, dref, df, allowed, imp, curious, rooms, visits, files,
                 stdout, quicksort>>

GroupNext == GroupDwell \/ GroupAgg \/ GroupLabel

SpecGroup == GroupInit /\ [][GroupNext]_vars

-----------------------------------------------------------------------------
(* The claims.  The definitions below restate what the specification says  *)
(* about the input; none of them is used by the model above.               *)

Events == 1..Len(df)

EpochOf(i) == iso_to_epoch(df[i].timestamp)

\* i comes before j in their user's epoch-ascending sequence, equal epochs
\* in input order
Before(i, j) ==
    /\ df[i].user_id = df[j].user_id
    /\ \/ EpochOf(i) < EpochOf(j)
       \/ EpochOf(i) = EpochOf(j) /\ i < j

\* c immediately follows p in that sequence
Follows(p, c) ==
    Before(p, c) /\ ~\E k \in Events : Before(p, k) /\ Before(k, c)

HasLater(i) == \E j \in Events : Before(i, j)

UsersOf == {df[i].user_id : i \in Events}

RowSet(res) == {res.rows[k] : k \in 1..Len(res.rows)}

\* the pairs the travel detector is to flag
ImpossiblePair(p, c) ==
    /\ df[c].location_id # df[p].location_id
    /\ EpochOf(c) - EpochOf(p) < 14400
    /\ Follows(p, c)

FindingOf(p, c) ==
    [index           |-> c - 1,
     user_id         |-> df[c].user_id,
     first_location  |-> df[p].location_id,
     second_location |-> df[c].location_id,
     first_ts        |-> EpochOf(p),
     second_ts       |-> EpochOf(c),
     delta_secs      |-> EpochOf(c) - EpochOf(p)]

\* C1: detect_impossible_travel emits a finding for (p, c) if and only if c
\* immediately follows p in their user's epoch-ascending sequence, the two
\* locations differ and c.epoch - p.epoch < 14400; the finding carries both
\* locations, both instants and their difference.
C1_TravelIff ==
    LET pairs    == {pr \in Events \X Events : ImpossiblePair(pr[1], pr[2])}
        findings == {FindingOf(pr[1], pr[2]) : pr \in pairs}
    IN  \A n \in 1..Len(imp) :
            imp[n].ok =>
                /\ RowSet(imp[n]) = findings
                /\ Len(imp[n].rows) = Cardinality(pairs)

\* a pair 14399 s apart is flagged while a same-location pair is not
C1_Witness ==
    /\ Len(imp) >= 1
    /\ imp[1].ok
    /\ \E k \in 1..Len(imp[1].rows) : imp[1].rows[k].delta_secs = 14399
    /\ \E p \in Events, c \in Events :
          Follows(p, c) /\ df[c].location_id = df[p].location_id

\* the allowed set of a user, empty when the map has no entry
AllowedOf(u) == IF u \in DOMAIN allowed THEN allowed[u] ELSE {}

Unauthorized(u) ==
    {i \in Events : /\ df[i].user_id = u
                    /\ df[i].success = "false"
                    /\ df[i].room_id \notin AllowedOf(u)}

\* C2: detect_curious_users returns exactly one row per user with at least
\* one event whose success is explicitly false and whose room is not in the
\* user's allowed set (empty for users absent from the map), with attempts
\* the number of such events; no other event adds to a count and a user
\* without such an event has no row.
C2_CuriousRows ==
    \A n \in 1..Len(curious) :
        curious[n].ok =>
            LET rs == curious[n].rows
            IN  /\ {<<rs[k].user_id, rs[k].attempts>> : k \in 1..Len(rs)}
                     = {<<u, Cardinality(Unauthorized(u))>> :
                           u \in {v \in UsersOf : Unauthorized(v) # {}}}
                /\ \A j \in 1..Len(rs), k \in 1..Len(rs) :
                       rs[j].user_id = rs[k].user_id => j = k

\* a user is reported with two attempts, next to a failed access of an
\* allowed room
C2_Witness ==
    /\ Len(curious) >= 1
    /\ curious[1].ok
    /\ \E k \in 1..Len(curious[1].rows) : curious[1].rows[k].attempts = 2
    /\ \E i \in Events :
          df[i].success = "false" /\ df[i].room_id \in AllowedOf(df[i].user_id)

\* C3: in a run of main, an analysis that raises does not keep the other
\* two from writing their result files, when they would succeed on the
\* same input.
C3_FailureIsolated ==
    pc \in {"failed", "done"} =>
        LET okT == detect_impossible_travel(df).ok
            okC == curious_groups(df, allowed).ok
            okR == room_labels(df).ok
        IN  /\ (~okT /\ okC /\ okR) =>
                   files["curious_users.json"].written
                   /\ files["room_types.json"].written
            /\ (okT /\ ~okC /\ okR) =>
                   files["cloned_findings.json"].written
                   /\ files["room_types.json"].written
            /\ (okT /\ okC /\ ~okR) =>
                   files["cloned_findings.json"].written
                   /\ files["curious_users.json"].written

\* the ordered rules of the room classifier
Traffic(hours, lo, hi) == SumOver(hours, lo..hi)

RuleHolds(k, med, hours) ==
    LET morning == Traffic(hours, 7, 9)
        lunch   == Traffic(hours, 11, 13)
        evening == Traffic(hours, 16, 19)
        night   == Traffic(hours, 0, 5) + Traffic(hours, 21, 23)
    IN  CASE k = 1 -> morning > lunch /\ med < 15 * MinUnit
          [] k = 2 -> med >= 25 * MinUnit /\ med <= 150 * MinUnit
                      /\ lunch > morning /\ lunch > evening
          [] k = 3 -> med < 10 * MinUnit /\ morning + lunch + evening > 50 /\ night = 0
          [] k = 4 -> med >= 40 * MinUnit /\ med <= 90 * MinUnit
                      /\ lunch > morning + evening /\ lunch > 20
          [] k = 5 -> night > morning + lunch + evening /\ med >= 60 * MinUnit

RuleLabels ==
    <<"Lobby/Entry", "Conference/Meeting", "Hallway/Break", "Cafeteria",
      "Security/Overnight/Server">>

LastMatch(med, hours) ==
    LET hit == {k \in 1..5 : RuleHolds(k, med, hours)}
    IN  IF hit = {} THEN "Other/Office"
        ELSE RuleLabels[CHOOSE k \in hit : \A j \in hit : j <= k]

\* C4: the label of a room is the label of the last rule, in the order
\* Lobby/Entry, Conference/Meeting, Hallway/Break, Cafeteria,
\* Security/Overnight/Server, whose predicate holds, and Other/Office when
\* none holds; 10 visits in hours 11-13 with median dwell 45 and no morning
\* or evening traffic are labelled Conference/Meeting.
C4_LastRuleWins ==
    pc = "labelled" =>
        /\ grp.label = LastMatch(grp.median_dwell_mins, grp.hours)
        /\ (/\ Total(grp.hours) = 10
            /\ Traffic(grp.hours, 11, 13) = 10
            /\ grp.median_dwell_mins = 45 * MinUnit)
               => grp.label = "Conference/Meeting"

\* a room that matches both the Conference/Meeting and the Cafeteria rule
C4_Witness ==
    /\ pc = "labelled"
    /\ RuleHolds(2, grp.median_dwell_mins, grp.hours)
    /\ RuleHolds(4, grp.median_dwell_mins, grp.hours)
    /\ grp.label = "Cafeteria"

\* C5: room_typing never counts the last event of a user's epoch-ascending
\* sequence as a visit, and a room is in the output if and only if some
\* event at that room has a later event by the same user.
C5_LastEventDropped ==
    \A n \in 1..Len(rooms) :
        rooms[n].ok =>
            LET rs == rooms[n].rows
            IN  /\ {visits[k].index + 1 : k \in 1..Len(visits)}
                     = {i \in Events : HasLater(i)}
                /\ {rs[k].room_id : k \in 1..Len(rs)}
                     = {df[i].room_id : i \in {j \in Events : HasLater(j)}}
                /\ \A k \in 1..Len(rs) :
                       rs[k].visits = Cardinality({i \in Events :
                                          df[i].room_id = rs[k].room_id /\ HasLater(i)})

\* some room has events, each the last of its user, while another room is
\* reported
C5_Witness ==
    /\ Len(rooms) >= 1
    /\ rooms[1].ok
    /\ Len(rooms[1].rows) >= 1
    /\ \E i \in Events :
          /\ \A j \in Events : df[j].room_id = df[i].room_id => ~HasLater(j)
          /\ \A k \in 1..Len(rooms[1].rows) : rooms[1].rows[k].room_id # df[i].room_id

MinOf(a, b) == IF a <= b THEN a ELSE b

MaxOf(a, b) == IF a >= b THEN a ELSE b

\* C6: the dwell recorded for a visit is min(max(raw, 0), 240) minutes, raw
\* being (next epoch - epoch) / 60: 500 minutes are recorded as 240, -5 as
\* 0, and every recorded dwell and every median lies in [0, 240].
C6_DwellClipped ==
    /\ pc \in {"agg", "label", "labelled"} =>
          /\ grp.dwell_mins * 60 = MinOf(MaxOf(grp.raw, 0), 240 * 60) * MinUnit
          /\ grp.raw = 500 * 60 => grp.dwell_mins = 240 * MinUnit
          /\ grp.raw = -5 * 60 => grp.dwell_mins = 0
          /\ grp.dwell_mins >= 0 /\ grp.dwell_mins <= 240 * MinUnit
    /\ pc \in {"label", "labelled"} =>
          grp.median_dwell_mins >= 0 /\ grp.median_dwell_mins <= 240 * MinUnit

\* a raw dwell of -5 minutes has been recorded
C6_Witness == pc = "agg" /\ grp.raw = -5 * 60 /\ grp.dwell_mins = 0

\* C7: a second run of the three analyses in the same process, on the same
\* event collection and permission map, returns what the first run
\* returned, rows in the same order and with the same values; no statement
\* of an analysis changes the DataFrame object main's df names, nor the
\* permission map.
C7_Idempotent ==
    [][/\ heap'.caller = heap.caller
       /\ heap'.caller = DataFrame(df)
       /\ allowed' = allowed
       /\ Len(imp') = 2 => imp'[2] = imp'[1]
       /\ Len(curious') = 2 => curious'[2] = curious'[1]
       /\ Len(rooms') = 2 => rooms'[2] = rooms'[1]]_vars

\* all three analyses have run twice and returned rows: a finding, a
\* curious user, and two rooms with as many visits each
C7_Witness ==
    /\ pc = "end"
    /\ Len(imp) = 2 /\ Len(curious) = 2 /\ Len(rooms) = 2
    /\ imp[2].ok /\ curious[2].ok /\ rooms[2].ok
    /\ Len(imp[2].rows) >= 1
    /\ Len(curious[2].rows) >= 1
    /\ Len(rooms[2].rows) = 2
    /\ rooms[2].rows[1].visits = rooms[2].rows[2].visits

\* two events of U1, at A and one hour later at B, the place held in col
TwoEvents(col) ==
    /\ Len(df) = 2
    /\ df[1].user_id = "U1" /\ df[2].user_id = "U1"
    /\ df[1][col] = "A" /\ df[2][col] = "B"
    /\ df[1].timestamp.valid /\ df[2].timestamp.valid
    /\ EpochOf(2) = EpochOf(1) + 3600

OneFinding(res) ==
    /\ res.ok
    /\ Len(res.rows) = 1
    /\ res.rows[1].user_id = "U1"
    /\ res.rows[1].first_location = "A"
    /\ res.rows[1].second_location = "B"
    /\ res.rows[1].delta_secs = 3600

\* C8 as stated: two events of U1, the location carried in room_id, A at T0
\* and B at T0 + 3600 s, give exactly one finding A -> B with delta_secs 3600.
C8_RoomIdField ==
    (TwoEvents("room_id") /\ ~HasColumn(df, "location_id") /\ Len(imp) >= 1)
        => OneFinding(imp[1])

\* C8 amended: with the location carried in location_id the two events give
\* exactly one finding A -> B with delta_secs 3600.
C8_LocationIdField ==
    (TwoEvents("location_id") /\ Len(imp) >= 1) => OneFinding(imp[1])

C8_Witness == TwoEvents("location_id") /\ Len(imp) >= 1 /\ imp[1].ok

\* two events of one user at the same epoch second
Tied(i, j) ==
    df[i].user_id = df[j].user_id /\ EpochOf(i) = EpochOf(j) /\ i # j

\* C9: events of one user with equal epoch seconds keep their input order
\* in the per-user sequences: a finding between two tied events has its
\* first_location from the event earlier in the input, and of the tied
\* events at a user's last instant the one latest in the input is the one
\* without a successor.
C9_TiesKeepInputOrder ==
    /\ \A n \in 1..Len(imp) :
          imp[n].ok =>
              \A k \in 1..Len(imp[n].rows) :
                  LET f == imp[n].rows[k]
                      c == f.index + 1
                  IN  f.delta_secs = 0 /\ (\E i \in Events : Tied(i, c)) =>
                          \E p \in 1..(c - 1) :
                              /\ Tied(p, c)
                              /\ ~\E m \in (p + 1)..(c - 1) : Tied(m, c)
                              /\ f.first_location = df[p].location_id
    /\ \A n \in 1..Len(rooms) :
          rooms[n].ok =>
              \A i \in Events, j \in Events :
                  (Tied(i, j) /\ i < j) =>
                      \E k \in 1..Len(visits) :
                          /\ visits[k].index = i - 1
                          /\ (~\E m \in (i + 1)..(j - 1) : Tied(m, j)) =>
                                 visits[k].next_epoch = EpochOf(j)

\* a finding between two events of equal epoch second, on a frame for which
\* room_typing returns too
C9_Witness ==
    /\ Len(imp) >= 1 /\ imp[1].ok
    /\ Len(rooms) >= 1 /\ rooms[1].ok
    /\ \E k \in 1..Len(imp[1].rows) : imp[1].rows[k].delta_secs = 0

RECURSIVE SumVisits(_, _)
SumVisits(rs, n) == IF n = 0 THEN 0 ELSE rs[n].visits + SumVisits(rs, n - 1)

\* C10: when every event has a user_id, a room_id and a parseable timestamp,
\* the visits of the rows of room_typing add up to the number of events
\* minus the number of distinct users, and detect_impossible_travel returns
\* at most that many findings.
C10_VisitCount ==
    /\ \A n \in 1..Len(rooms) :
          rooms[n].ok =>
              SumVisits(rooms[n].rows, Len(rooms[n].rows))
                  = Len(df) - Cardinality(UsersOf)
    /\ \A n \in 1..Len(imp) :
          imp[n].ok => Len(imp[n].rows) <= Len(df) - Cardinality(UsersOf)

\* three events of two users: one visit is counted
C10_Witness ==
    /\ Len(rooms) >= 1 /\ rooms[1].ok
    /\ Len(imp) >= 1 /\ imp[1].ok
    /\ Len(df) = 3 /\ Cardinality(UsersOf) = 2
    /\ SumVisits(rooms[1].rows, Len(rooms[1].rows)) = 1
    /\ Len(imp[1].rows) = 1

====
